---- MODULE Spec2Model ----
(***************************************************************************)
(* State-machine model of the two React components of the repository:      *)
(*   src/src/components/VerificationPortal.tsx  (specification Spec)       *)
(*   src/src/components/StudentWallet.tsx       (specification SpecSW)     *)
(* Each component's useState cells are the fields of one record (vp, sw).  *)
(* An async handler is split at its awaits: the synchronous run up to an   *)
(* await is one action, the continuation after the awaited call returns or *)
(* throws is another.  A handler reads the state cells through the closure *)
(* of the render it was created in, so every in-flight call carries the    *)
(* values its handler captured when it was called.                         *)
(***************************************************************************)
EXTENDS Integers, Sequences, FiniteSets, TLC

\* ---------------------------------------------------------------- bounds
MaxAttempts == 4    \* non-empty handleVerify calls in one session
MaxInFlight == 2    \* verifyCredential calls pending at once
MaxChecks == 1      \* checkUserSubscription calls pending at once
MaxConnects == 1    \* connectWallet calls pending at once
MaxLoads == 1       \* loadCredentials calls pending at once (StudentWallet)

\* ------------------------------------------------------- values and strings
\* null / undefined: an optional value is <<>> (absent) or <<x>>.
Null == <<>>
Some(x) == <<x>>

\* Strings are sequences of one-character strings.
Space == " "
\* What the visitor types into the input field (which starts empty).
TokenIds == { <<Space>>, <<"7">> }
\* window.location.search: parameter absent, or present with a value.
UrlParams == { Null, Some(<<>>), Some(<<Space>>), Some(<<"7">>) }
Address == "0xA11CE"
NoAddress == "null"
\* err.message of an error thrown by verifyCredential
ErrMessages == { "", "execution reverted" }

MsgEmpty == "Please enter a token ID"
MsgLimit == "Verification limit reached. Please subscribe to continue."
MsgNotFound == "Credential not found or invalid token ID"
MsgFailed == "Failed to verify credential"
NoError == "null"

\* String.prototype.trim
RECURSIVE TrimLeft(_)
TrimLeft(s) == IF s # <<>> /\ Head(s) = Space THEN TrimLeft(Tail(s)) ELSE s

RECURSIVE TrimRight(_)
TrimRight(s) ==
    IF s # <<>> /\ s[Len(s)] = Space THEN TrimRight(SubSeq(s, 1, Len(s) - 1)) ELSE s

Trim(s) == TrimRight(TrimLeft(s))

\* ------------------------------------------------------------------ state
VARIABLES
    vp,           \* VerificationPortal's useState cells
    env,          \* the page: its mount effect has run, the subscription is active
    verifyReqs,   \* verifyCredential calls in flight
    accountReqs,  \* eth_accounts requests in flight (checkWalletConnection)
    connectReqs,  \* connectWallet calls in flight (handleConnectWallet)
    accessReqs,   \* checkUserSubscription calls in flight (checkAccess)
    hist,         \* history: the session's attempt counters
    sw,           \* StudentWallet's useState cells
    swMounted,    \* StudentWallet's mount effect has run
    swAccountReqs,\* eth_accounts requests in flight (StudentWallet)
    swConnects,   \* handleConnectWallet calls in flight, each at one of its awaits
    loads         \* loadCredentials calls in flight, each at one of its awaits

portalVars == <<vp, env, verifyReqs, accountReqs, connectReqs, accessReqs, hist>>
walletVars == <<sw, swMounted, swAccountReqs, swConnects, loads>>
vars == <<portalVars, walletVars>>

\* The free-tier limit of handleVerify.
FreeLimit == 3

\* ------------------------------------------------------- VerificationPortal
\* const idToVerify = id || tokenId
IdToVerify(id, tokenId) ==
    IF id = Null \/ id[1] = <<>> THEN tokenId ELSE id[1]

\* if (verifyParam): null and the empty string are falsy
Truthy(v) == v # Null /\ v[1] # <<>>

\* Mutant of IsBlank: the trim() is forgotten.
IsBlankNoTrim(s) == s = <<>>

\* !idToVerify.trim()
IsBlank(s) == Trim(s) = <<>>

\* Mutant of Capped: > for >=.
CappedOffByOne(walletAddress, hasAccess, verificationCount) ==
    /\ walletAddress # NoAddress
    /\ ~hasAccess
    /\ verificationCount > FreeLimit

\* Mutant of Capped: the free verifications are tied to the wallet, so that a
\* visitor with no wallet has none: !hasAccess && (!walletAddress || count >= 3).
CappedWithoutWallet(walletAddress, hasAccess, verificationCount) ==
    /\ ~hasAccess
    /\ walletAddress = NoAddress \/ verificationCount >= FreeLimit

\* walletAddress && !hasAccess && verificationCount >= 3
Capped(walletAddress, hasAccess, verificationCount) ==
    /\ walletAddress # NoAddress
    /\ ~hasAccess
    /\ verificationCount >= FreeLimit

\* if (walletAddress && !hasAccess) setVerificationCount(prev => prev + 1)
Counts(walletAddress, hasAccess) == walletAddress # NoAddress /\ ~hasAccess

\* What a handleVerify(id) call does, decided from the state s its closure holds.
VerifyOutcome(id, s) ==
    IF IsBlank(IdToVerify(id, s.tokenId)) THEN "empty"
    ELSE IF Capped(s.walletAddress, s.hasAccess, s.verificationCount) THEN "blocked"
    ELSE "issued"

\* Mutant of HandleVerifySync: the cap is tested after the display has been reset.
HandleVerifySyncCapLate(id, s, cur) ==
    LET out == VerifyOutcome(id, s)
    IN  CASE out = "empty" ->
                [cur EXCEPT !.error = MsgEmpty]
          [] out = "blocked" ->
                [cur EXCEPT !.error = MsgLimit, !.showPricing = TRUE,
                            !.credential = Null, !.searched = TRUE]
          [] OTHER ->
                [cur EXCEPT !.loading = TRUE, !.error = NoError,
                            !.credential = Null, !.searched = TRUE]

\* The synchronous part of handleVerify(id), up to its await: s is the state the
\* closure reads, cur the state its set... calls are applied to.
HandleVerifySync(id, s, cur) ==
    LET out == VerifyOutcome(id, s)
    IN  CASE out = "empty" ->
                [cur EXCEPT !.error = MsgEmpty]
          [] out = "blocked" ->
                [cur EXCEPT !.error = MsgLimit, !.showPricing = TRUE]
          [] OTHER ->
                [cur EXCEPT !.loading = TRUE, !.error = NoError,
                            !.credential = Null, !.searched = TRUE]

\* Mutant of VerifyReq: verifyCredential(tokenId) for verifyCredential(idToVerify).
VerifyReqTokenId(id, s, seq) ==
    [seq |-> seq, id |-> s.tokenId,
     walletAddress |-> s.walletAddress, hasAccess |-> s.hasAccess]

\* The call handleVerify(id) makes to verifyCredential, with what its closure holds.
VerifyReq(id, s, seq) ==
    [seq |-> seq, id |-> IdToVerify(id, s.tokenId),
     walletAddress |-> s.walletAddress, hasAccess |-> s.hasAccess]

\* The credential verifyCredential(id) resolves with.
CredentialOf(id) == [tokenId |-> Trim(id)]

\* After the await: verifyCredential resolved with result (Null or Some(credential)).
OnVerifyResult(r, result, cur) ==
    IF result # Null
    THEN [cur EXCEPT !.credential = result,
                     !.verificationCount =
                         IF Counts(r.walletAddress, r.hasAccess) THEN @ + 1 ELSE @,
                     !.loading = FALSE]
    ELSE [cur EXCEPT !.error = MsgNotFound, !.loading = FALSE]

\* Mutant of OnVerifyError: setError(err.message), the fallback is forgotten.
OnVerifyErrorNoFallback(message, cur) ==
    [cur EXCEPT !.error = message, !.loading = FALSE]

\* After the await: verifyCredential threw an error with this message.
OnVerifyError(message, cur) ==
    [cur EXCEPT !.error = IF message # "" THEN message ELSE MsgFailed,
                !.loading = FALSE]

\* setWalletAddress(a), and the [walletAddress] effect it triggers when the value
\* changes: checkAccess() sets checkingAccess and calls checkUserSubscription.
SetWalletAddress(a, cur) ==
    IF a = cur.walletAddress THEN cur
    ELSE [cur EXCEPT !.walletAddress = a, !.checkingAccess = TRUE]

StartsCheck(a, cur) == a # cur.walletAddress /\ a # NoAddress

InitVP ==
    [tokenId |-> <<>>, credential |-> Null, loading |-> FALSE, error |-> NoError,
     searched |-> FALSE, walletAddress |-> NoAddress, hasAccess |-> FALSE,
     checkingAccess |-> FALSE, showPricing |-> FALSE, verificationCount |-> 0]

\* hist: attempts counts the session's non-empty handleVerify calls, unconnected
\* tells that one of them was made with no wallet address set. A verification
\* request's seq is its attempt number.
Hist(attempts, unconnected) == [attempts |-> attempts, unconnected |-> unconnected]

InitPortal ==
    /\ vp = InitVP
    /\ env \in [mounted : {FALSE}, subscribed : BOOLEAN]
    /\ verifyReqs = {}
    /\ accountReqs = 0
    /\ connectReqs = 0
    /\ accessReqs = 0
    /\ hist = Hist(0, FALSE)

\* A handleVerify(id) call made from the render whose state is s, applied to cur.
\* Shared by the mount effect and the user's triggers.
CallHandleVerify(id, s, cur) ==
    LET out == VerifyOutcome(id, s)
        seq == hist.attempts + 1
    IN  /\ out # "empty" => hist.attempts < MaxAttempts
        /\ out = "issued" => Cardinality(verifyReqs) < MaxInFlight
        /\ vp' = HandleVerifySync(id, s, cur)
        /\ verifyReqs' =
              IF out = "issued" THEN verifyReqs \cup {VerifyReq(id, s, seq)}
              ELSE verifyReqs
        /\ hist' = IF out = "empty" THEN hist
                   ELSE Hist(seq, hist.unconnected \/ s.walletAddress = NoAddress)

\* useEffect(..., []): the mount effect, on a page whose URL carries verifyParam and
\* where window.ethereum is or is not there.
MountWith(verifyParam, ethereum) ==
    /\ ~env.mounted
    /\ env' = [env EXCEPT !.mounted = TRUE]
    /\ IF Truthy(verifyParam)
       THEN CallHandleVerify(verifyParam, vp, [vp EXCEPT !.tokenId = verifyParam[1]])
       ELSE UNCHANGED <<vp, verifyReqs, hist>>
    /\ accountReqs' = IF ethereum THEN accountReqs + 1 ELSE accountReqs
    /\ UNCHANGED <<connectReqs, accessReqs>>
    /\ UNCHANGED walletVars

Mount == \E verifyParam \in UrlParams, ethereum \in BOOLEAN : MountWith(verifyParam, ethereum)

\* onChange of the input field.
SetTokenId ==
    /\ env.mounted
    /\ \E t \in TokenIds :
          /\ t # vp.tokenId
          /\ vp' = [vp EXCEPT !.tokenId = t]
    /\ UNCHANGED <<env, verifyReqs, accountReqs, connectReqs, accessReqs, hist>>
    /\ UNCHANGED walletVars

CanTriggerGuarded(via, loading) == ~loading

\* What lets the visitor call handleVerify: the Verify button is disabled while
\* loading; the input's onKeyDown calls handleVerify on Enter whatever loading is.
CanTrigger(via, loading) == via = "button" => ~loading

\* The Verify button or Enter in the input field.
HandleVerify ==
    /\ env.mounted
    /\ \E via \in {"button", "enter"} : CanTrigger(via, vp.loading)
    /\ CallHandleVerify(Null, vp, vp)
    /\ UNCHANGED <<env, accountReqs, connectReqs, accessReqs>>
    /\ UNCHANGED walletVars

\* The verifyCredential call r resolves with result: a credential, or null.
VerifyResult(r, result) ==
    /\ r \in verifyReqs
    /\ vp' = OnVerifyResult(r, result, vp)
    /\ verifyReqs' = verifyReqs \ {r}
    /\ UNCHANGED <<env, accountReqs, connectReqs, accessReqs, hist>>
    /\ UNCHANGED walletVars

VerifyFound == \E r \in verifyReqs : VerifyResult(r, Some(CredentialOf(r.id)))

VerifyNull == \E r \in verifyReqs : VerifyResult(r, Null)

\* The verifyCredential call r throws an error with this message.
VerifyError(r, message) ==
    /\ r \in verifyReqs
    /\ vp' = OnVerifyError(message, vp)
    /\ verifyReqs' = verifyReqs \ {r}
    /\ UNCHANGED <<env, accountReqs, connectReqs, accessReqs, hist>>
    /\ UNCHANGED walletVars

VerifyThrow == \E r \in verifyReqs, message \in ErrMessages : VerifyError(r, message)

\* checkWalletConnection's eth_accounts request resolves with the accounts list.
AccountsReturn ==
    /\ accountReqs > 0
    /\ accountReqs' = accountReqs - 1
    /\ \E accounts \in { <<>>, <<Address>> } :
          LET a == IF Len(accounts) > 0 THEN accounts[1] ELSE vp.walletAddress
          IN  /\ vp' = SetWalletAddress(a, vp)
              /\ accessReqs' = IF StartsCheck(a, vp) THEN accessReqs + 1 ELSE accessReqs
    /\ UNCHANGED <<env, verifyReqs, connectReqs, hist>>
    /\ UNCHANGED walletVars

\* checkWalletConnection's eth_accounts request throws: caught and logged.
AccountsThrow ==
    /\ accountReqs > 0
    /\ accountReqs' = accountReqs - 1
    /\ UNCHANGED <<vp, env, verifyReqs, connectReqs, accessReqs, hist>>
    /\ UNCHANGED walletVars

\* The Connect Wallet button, rendered while walletAddress is null.
HandleConnectWallet ==
    /\ env.mounted
    /\ vp.walletAddress = NoAddress
    /\ connectReqs < MaxConnects
    /\ connectReqs' = connectReqs + 1
    /\ UNCHANGED <<vp, env, verifyReqs, accountReqs, accessReqs, hist>>
    /\ UNCHANGED walletVars

\* connectWallet resolves with an address or null.
ConnectReturn ==
    /\ connectReqs > 0
    /\ connectReqs' = connectReqs - 1
    /\ \E address \in { NoAddress, Address } :
          LET a == IF address # NoAddress THEN address ELSE vp.walletAddress
          IN  /\ vp' = SetWalletAddress(a, vp)
              /\ accessReqs' = IF StartsCheck(a, vp) THEN accessReqs + 1 ELSE accessReqs
    /\ UNCHANGED <<env, verifyReqs, accountReqs, hist>>
    /\ UNCHANGED walletVars

\* connectWallet throws: handleConnectWallet has no try, the rejection is unhandled.
ConnectThrow ==
    /\ connectReqs > 0
    /\ connectReqs' = connectReqs - 1
    /\ UNCHANGED <<vp, env, verifyReqs, accountReqs, accessReqs, hist>>
    /\ UNCHANGED walletVars

\* checkAccess after its await: checkUserSubscription resolved with { hasAccess }.
OnAccessResult(access, cur) ==
    [cur EXCEPT !.hasAccess = access, !.checkingAccess = FALSE]

AccessReturn ==
    /\ accessReqs > 0
    /\ accessReqs' = accessReqs - 1
    /\ vp' = OnAccessResult(env.subscribed, vp)
    /\ UNCHANGED <<env, verifyReqs, accountReqs, connectReqs, hist>>
    /\ UNCHANGED walletVars

\* checkUserSubscription throws: checkAccess has no try, its last two lines never run.
AccessThrow ==
    /\ accessReqs > 0
    /\ accessReqs' = accessReqs - 1
    /\ UNCHANGED <<vp, env, verifyReqs, accountReqs, connectReqs, hist>>
    /\ UNCHANGED walletVars

ShowPricingUnguarded ==
    /\ env.mounted
    /\ ~vp.hasAccess
    /\ ~vp.showPricing
    /\ vp' = [vp EXCEPT !.showPricing = TRUE]
    /\ UNCHANGED <<env, verifyReqs, accountReqs, connectReqs, accessReqs, hist>>
    /\ UNCHANGED walletVars

\* "Upgrade for unlimited" (connected, no access) and "View pricing plans"
\* (connected, no access, limit reached): both setShowPricing(true).
ShowPricing ==
    /\ env.mounted
    /\ vp.walletAddress # NoAddress /\ ~vp.hasAccess
    /\ ~vp.showPricing
    /\ vp' = [vp EXCEPT !.showPricing = TRUE]
    /\ UNCHANGED <<env, verifyReqs, accountReqs, connectReqs, accessReqs, hist>>
    /\ UNCHANGED walletVars

\* PricingModal (rendered when showPricing && walletAddress) calls onClose.
PricingClose ==
    /\ vp.showPricing /\ vp.walletAddress # NoAddress
    /\ vp' = [vp EXCEPT !.showPricing = FALSE]
    /\ UNCHANGED <<env, verifyReqs, accountReqs, connectReqs, accessReqs, hist>>
    /\ UNCHANGED walletVars

\* PricingModal calls onSuccess: setShowPricing(false); checkAccess().
PricingSuccess ==
    /\ vp.showPricing /\ vp.walletAddress # NoAddress
    /\ accessReqs < MaxChecks
    /\ vp' = [vp EXCEPT !.showPricing = FALSE, !.checkingAccess = TRUE]
    /\ accessReqs' = accessReqs + 1
    /\ UNCHANGED <<env, verifyReqs, accountReqs, connectReqs, hist>>
    /\ UNCHANGED walletVars

\* The environment: the address's subscription becomes active.
Subscribe ==
    /\ ~env.subscribed
    /\ env' = [env EXCEPT !.subscribed = TRUE]
    /\ UNCHANGED <<vp, verifyReqs, accountReqs, connectReqs, accessReqs, hist>>
    /\ UNCHANGED walletVars

\* ------------------------------------------------------------ StudentWallet
Addresses == { "0xA11CE", "0xB0B" }
\* What eth_accounts resolves with.
AccountLists == { <<>>, <<"0xA11CE">>, <<"0xB0B", "0xA11CE">> }

\* Credential (on-chain view) and CredentialRecord (backing-store view).
Cred(t) == [tokenId |-> t]
Rec(i, t) == [id |-> i, token_id |-> t]
\* What getStudentCredentials and getCredentialsByStudent resolve with.
CredLists == { <<>>, <<Cred("1"), Cred("2")>> }
RecLists == { <<>>, <<Rec("r2", "2")>> }

InitSW ==
    [activeTab |-> "credentials", walletAddress |-> NoAddress, credentials |-> <<>>,
     loading |-> FALSE, selectedCredential |-> Null, shareCredential |-> Null,
     viewAuditCredential |-> Null, dbCredentials |-> <<>>, view3D |-> FALSE]

InitWallet ==
    /\ sw = InitSW
    /\ swMounted = FALSE
    /\ swAccountReqs = 0
    /\ swConnects = {}
    /\ loads = <<>>

Init == InitPortal /\ InitWallet

\* loadCredentials(address) up to its first await: setLoading(true), then the call
\* getStudentCredentials(address). by names the caller of loadCredentials, before
\* holds credentials and dbCredentials as they were when it was called.
LoadSync(cur) == [cur EXCEPT !.loading = TRUE]

LoadCall(by, address, cur) ==
    [by |-> by, address |-> address, phase |-> "chain",
     before |-> [credentials |-> cur.credentials, dbCredentials |-> cur.dbCredentials]]

\* loadCredentials after getStudentCredentials resolved with creds:
\* setCredentials(creds), then the call getCredentialsByStudent(address).
OnCreds(creds, cur) == [cur EXCEPT !.credentials = creds]

\* loadCredentials after getCredentialsByStudent resolved with dbCreds:
\* setDbCredentials(dbCreds); finally setLoading(false).
OnDbCreds(dbCreds, cur) == [cur EXCEPT !.dbCredentials = dbCreds, !.loading = FALSE]

OnLoadErrorClears(cur) ==
    [cur EXCEPT !.credentials = <<>>, !.dbCredentials = <<>>, !.loading = FALSE]

\* loadCredentials' catch and finally: console.error; setLoading(false).
OnLoadError(cur) == [cur EXCEPT !.loading = FALSE]

\* handleConnectWallet after connectWallet resolved with an address:
\* setWalletAddress(address), then the call switchToSepolia().
OnConnected(address, cur) == [cur EXCEPT !.walletAddress = address]

\* handleConnectWallet's finally: setLoading(false).
ConnectFinally(cur) == [cur EXCEPT !.loading = FALSE]

Remove(q, i) == SubSeq(q, 1, i - 1) \o SubSeq(q, i + 1, Len(q))

\* useEffect(() => checkWalletConnection(), []), where window.ethereum is or is
\* not there.
SWMountWith(ethereum) ==
    /\ ~swMounted
    /\ swMounted' = TRUE
    /\ swAccountReqs' = IF ethereum THEN swAccountReqs + 1 ELSE swAccountReqs
    /\ UNCHANGED <<sw, swConnects, loads>>
    /\ UNCHANGED portalVars

SWMount == \E ethereum \in BOOLEAN : SWMountWith(ethereum)

\* Mutant of FirstAccount: the last account for the first.
LastAccount(accounts) == accounts[Len(accounts)]

\* accounts[0]
FirstAccount(accounts) == accounts[1]

\* checkWalletConnection after eth_accounts resolved with accounts.
SWAccountsResult(accounts) ==
    /\ swAccountReqs > 0
    /\ swAccountReqs' = swAccountReqs - 1
    /\ IF Len(accounts) > 0
       THEN /\ Len(loads) < MaxLoads
            /\ sw' = LoadSync(OnConnected(FirstAccount(accounts), sw))
            /\ loads' = Append(loads, LoadCall("checkWalletConnection",
                                               FirstAccount(accounts), sw))
       ELSE UNCHANGED <<sw, loads>>
    /\ UNCHANGED <<swMounted, swConnects>>
    /\ UNCHANGED portalVars

SWAccountsReturn == \E accounts \in AccountLists : SWAccountsResult(accounts)

\* checkWalletConnection: eth_accounts throws, caught and logged.
SWAccountsThrow ==
    /\ swAccountReqs > 0
    /\ swAccountReqs' = swAccountReqs - 1
    /\ UNCHANGED <<sw, swMounted, swConnects, loads>>
    /\ UNCHANGED portalVars

\* The Connect Wallet button: rendered while walletAddress is null, disabled
\* while loading. setLoading(true), then the call connectWallet().
SWHandleConnectWallet ==
    /\ swMounted
    /\ sw.walletAddress = NoAddress /\ ~sw.loading
    /\ sw' = [sw EXCEPT !.loading = TRUE]
    /\ swConnects' = swConnects \cup {[phase |-> "connect", address |-> NoAddress]}
    /\ UNCHANGED <<swMounted, swAccountReqs, loads>>
    /\ UNCHANGED portalVars

\* connectWallet, called by the handleConnectWallet call c, resolves with an address
\* or with null (NoAddress).
SWConnectResult(c, address) ==
    /\ c \in swConnects /\ c.phase = "connect"
    /\ IF address # NoAddress
       THEN /\ sw' = OnConnected(address, sw)
            /\ swConnects' =
                  (swConnects \ {c}) \cup {[phase |-> "switch", address |-> address]}
       ELSE /\ sw' = ConnectFinally(sw)
            /\ swConnects' = swConnects \ {c}
    /\ UNCHANGED <<swMounted, swAccountReqs, loads>>
    /\ UNCHANGED portalVars

SWConnectReturn ==
    \E c \in swConnects, address \in Addresses \cup {NoAddress} : SWConnectResult(c, address)

\* connectWallet throws: caught, logged; finally setLoading(false).
SWConnectError(c) ==
    /\ c \in swConnects /\ c.phase = "connect"
    /\ swConnects' = swConnects \ {c}
    /\ sw' = ConnectFinally(sw)
    /\ UNCHANGED <<swMounted, swAccountReqs, loads>>
    /\ UNCHANGED portalVars

SWConnectThrow == \E c \in swConnects : SWConnectError(c)

\* switchToSepolia resolves: loadCredentials(address) is called and not awaited,
\* so its setLoading(true) is followed at once by the finally's setLoading(false).
SwitchReturn ==
    /\ Len(loads) < MaxLoads
    /\ \E c \in swConnects :
          /\ c.phase = "switch"
          /\ swConnects' = swConnects \ {c}
          /\ sw' = ConnectFinally(LoadSync(sw))
          /\ loads' = Append(loads, LoadCall("handleConnectWallet", c.address, sw))
    /\ UNCHANGED <<swMounted, swAccountReqs>>
    /\ UNCHANGED portalVars

\* switchToSepolia throws: caught, logged; finally setLoading(false).
SwitchError(c) ==
    /\ c \in swConnects /\ c.phase = "switch"
    /\ swConnects' = swConnects \ {c}
    /\ sw' = ConnectFinally(sw)
    /\ UNCHANGED <<swMounted, swAccountReqs, loads>>
    /\ UNCHANGED portalVars

SwitchThrow == \E c \in swConnects : SwitchError(c)

\* The Refresh button (connected view, credentials tab): loadCredentials(walletAddress).
Refresh ==
    /\ sw.walletAddress # NoAddress /\ sw.activeTab = "credentials"
    /\ Len(loads) < MaxLoads
    /\ sw' = LoadSync(sw)
    /\ loads' = Append(loads, LoadCall("refresh", sw.walletAddress, sw))
    /\ UNCHANGED <<swMounted, swAccountReqs, swConnects>>
    /\ UNCHANGED portalVars

\* getStudentCredentials resolves.
CredsReturn ==
    /\ \E i \in 1..Len(loads), creds \in CredLists :
          /\ loads[i].phase = "chain"
          /\ sw' = OnCreds(creds, sw)
          /\ loads' = [loads EXCEPT ![i].phase = "db"]
    /\ UNCHANGED <<swMounted, swAccountReqs, swConnects>>
    /\ UNCHANGED portalVars

\* getCredentialsByStudent resolves: the load ends.
DbCredsReturn ==
    /\ \E i \in 1..Len(loads), dbCreds \in RecLists :
          /\ loads[i].phase = "db"
          /\ sw' = OnDbCreds(dbCreds, sw)
          /\ loads' = Remove(loads, i)
    /\ UNCHANGED <<swMounted, swAccountReqs, swConnects>>
    /\ UNCHANGED portalVars

\* getStudentCredentials or getCredentialsByStudent, awaited by the loadCredentials
\* call loads[i], throws: the load ends in its catch.
LoadError(i) ==
    /\ i \in 1..Len(loads)
    /\ sw' = OnLoadError(sw)
    /\ loads' = Remove(loads, i)
    /\ UNCHANGED <<swMounted, swAccountReqs, swConnects>>
    /\ UNCHANGED portalVars

LoadThrow == \E i \in 1..Len(loads) : LoadError(i)

\* The connected view's credentials tab shows the credential list (and its
\* buttons) when it is not loading and the list is not empty.
ListShown ==
    /\ sw.walletAddress # NoAddress
    /\ sw.activeTab = "credentials"
    /\ ~sw.loading
    /\ sw.credentials # <<>>

Range(q) == { q[i] : i \in 1..Len(q) }

\* dbCredentials.find(c => c.token_id === tokenId): Null when there is none.
RECURSIVE Find(_, _)
Find(q, tokenId) ==
    IF q = <<>> THEN Null
    ELSE IF Head(q).token_id = tokenId THEN Some(Head(q))
    ELSE Find(Tail(q), tokenId)

SWUnchangedCalls == UNCHANGED <<swMounted, swAccountReqs, swConnects, loads>>

\* The tab buttons of the connected view.
SetActiveTab ==
    /\ sw.walletAddress # NoAddress
    /\ \E tab \in {"credentials", "profile"} :
          /\ tab # sw.activeTab
          /\ sw' = [sw EXCEPT !.activeTab = tab]
    /\ SWUnchangedCalls
    /\ UNCHANGED portalVars

\* The 3D toggle (connected view, credentials tab): setView3D(!view3D).
ToggleView3D ==
    /\ sw.walletAddress # NoAddress /\ sw.activeTab = "credentials"
    /\ sw' = [sw EXCEPT !.view3D = ~sw.view3D]
    /\ SWUnchangedCalls
    /\ UNCHANGED portalVars

OpenQRExclusive ==
    /\ ListShown /\ ~sw.view3D
    /\ \E credential \in Range(sw.credentials) :
          sw' = [sw EXCEPT !.selectedCredential = Some(credential),
                           !.shareCredential = Null,
                           !.viewAuditCredential = Null]
    /\ SWUnchangedCalls
    /\ UNCHANGED portalVars

\* A card's QR button: setSelectedCredential(credential).
OpenQR ==
    /\ ListShown /\ ~sw.view3D
    /\ \E credential \in Range(sw.credentials) :
          sw' = [sw EXCEPT !.selectedCredential = Some(credential)]
    /\ SWUnchangedCalls
    /\ UNCHANGED portalVars

\* A card's History button: if (dbCred) setViewAuditCredential(dbCred.id).
OpenHistory ==
    /\ ListShown /\ ~sw.view3D
    /\ \E credential \in Range(sw.credentials) :
          LET dbCred == Find(sw.dbCredentials, credential.tokenId)
          IN  sw' = IF dbCred # Null
                    THEN [sw EXCEPT !.viewAuditCredential = Some(dbCred[1].id)]
                    ELSE sw
    /\ SWUnchangedCalls
    /\ UNCHANGED portalVars

\* Credential3DShowcase calls onShare(cred): setShareCredential(cred).
OnShare ==
    /\ ListShown /\ sw.view3D
    /\ \E cred \in Range(sw.dbCredentials) :
          sw' = [sw EXCEPT !.shareCredential = Some(cred)]
    /\ SWUnchangedCalls
    /\ UNCHANGED portalVars

\* Credential3DShowcase calls onViewHistory(id): setViewAuditCredential(id).
OnViewHistory ==
    /\ ListShown /\ sw.view3D
    /\ \E cred \in Range(sw.dbCredentials) :
          sw' = [sw EXCEPT !.viewAuditCredential = Some(cred.id)]
    /\ SWUnchangedCalls
    /\ UNCHANGED portalVars

\* QRCodeModal's onClose: setSelectedCredential(null).
CloseQR ==
    /\ sw.walletAddress # NoAddress /\ sw.selectedCredential # Null
    /\ sw' = [sw EXCEPT !.selectedCredential = Null]
    /\ SWUnchangedCalls
    /\ UNCHANGED portalVars

\* The share modal's close button: setShareCredential(null).
CloseShare ==
    /\ sw.walletAddress # NoAddress /\ sw.shareCredential # Null
    /\ sw' = [sw EXCEPT !.shareCredential = Null]
    /\ SWUnchangedCalls
    /\ UNCHANGED portalVars

\* The history modal's close button: setViewAuditCredential(null).
CloseAudit ==
    /\ sw.walletAddress # NoAddress /\ sw.viewAuditCredential # Null
    /\ sw' = [sw EXCEPT !.viewAuditCredential = Null]
    /\ SWUnchangedCalls
    /\ UNCHANGED portalVars

Next ==
    \/ Mount
    \/ SetTokenId
    \/ HandleVerify
    \/ VerifyFound
    \/ VerifyNull
    \/ VerifyThrow
    \/ AccountsReturn
    \/ AccountsThrow
    \/ HandleConnectWallet
    \/ ConnectReturn
    \/ ConnectThrow
    \/ AccessReturn
    \/ AccessThrow
    \/ ShowPricing
    \/ PricingClose
    \/ PricingSuccess
    \/ Subscribe

NextSW ==
    \/ SWMount
    \/ SWAccountsReturn
    \/ SWAccountsThrow
    \/ SWHandleConnectWallet
    \/ SWConnectThrow
    \/ SWConnectReturn
    \/ SwitchThrow
    \/ SwitchReturn
    \/ Refresh
    \/ LoadThrow
    \/ CredsReturn
    \/ DbCredsReturn
    \/ SetActiveTab
    \/ ToggleView3D
    \/ OpenQR
    \/ OpenHistory
    \/ OnShare
    \/ OnViewHistory
    \/ CloseQR
    \/ CloseShare
    \/ CloseAudit

\* VerificationPortal
Spec == Init /\ [][Next]_vars

\* StudentWallet
SpecSW == Init /\ [][NextSW]_vars

\* ----------------------------------------------------------------- claims
\* The step is a handleVerify call: the user's, or the mount effect's.
VerifyCalled ==
    \/ HandleVerify
    \/ ~env.mounted /\ \E p \in UrlParams, e \in BOOLEAN : Truthy(p) /\ MountWith(p, e)

\* The step is a handleVerify call with a token ID that passes the empty check:
\* it is the session's next attempt.
AttemptStep == hist'.attempts = hist.attempts + 1 /\ VerifyCalled

\* The verifyCredential calls the step makes.
NewReqs == verifyReqs' \ verifyReqs

AllSpaces(t) == \A i \in 1..Len(t) : t[i] = Space

\* The visitor is connected and has made every attempt of the session connected.
ConnectedSession == vp.walletAddress # NoAddress /\ ~hist.unconnected

\* C1 (as claimed): for a connected visitor without subscription, the visitor's
\* attempts 1, 2 and 3 call verifyCredential, and the 4th and every later attempt is
\* blocked (no verifyCredential call) and sets showPricing.
C1_FourthAttemptBlocked ==
    [][(AttemptStep /\ ConnectedSession /\ ~env.subscribed) =>
          /\ hist'.attempts <= 3 => NewReqs # {}
          /\ hist'.attempts >= 4 => NewReqs = {} /\ vp'.showPricing]_vars

\* C1 (amended): for a connected visitor without subscription, attempts 1, 2 and 3
\* are never blocked; an attempt is blocked exactly when verificationCount, the
\* number of counted successful verifications, is 3 or more when handleVerify is
\* called; a blocked attempt makes no verifyCredential call and sets showPricing.
C1_BlockedAfterThreeSuccesses ==
    [][(AttemptStep /\ vp.walletAddress # NoAddress /\ ~env.subscribed) =>
          /\ hist'.attempts <= 3 => NewReqs # {}
          /\ NewReqs = {} <=> vp.verificationCount >= 3
          /\ NewReqs = {} => vp'.showPricing]_vars

\* C1 witness: the 4th attempt of a connected visitor without subscription has been
\* blocked after three counted successes: the limit message and the pricing prompt
\* are up and no request is in flight.
C1_Witness ==
    /\ hist.attempts = 4 /\ ~hist.unconnected
    /\ vp.walletAddress # NoAddress /\ ~env.subscribed
    /\ vp.verificationCount = 3
    /\ vp.error = MsgLimit /\ vp.showPricing
    /\ verifyReqs = {}

\* C2 (as claimed): verificationCount <= 3 in every reachable state, overlapping
\* in-flight verification requests included.
C2_CountAtMostThree == vp.verificationCount <= 3

\* C3: while walletAddress is null, every handleVerify call with a non-empty token ID
\* calls verifyCredential, and the call leaves showPricing as it was.
C3_UnconnectedNeverBlocked ==
    [][(AttemptStep /\ vp.walletAddress = NoAddress) =>
          /\ Cardinality(NewReqs) = 1
          /\ vp'.showPricing = vp.showPricing]_vars

\* C3 witness: an unconnected visitor's 4th attempt has called verifyCredential
\* (request 4 is in flight) after earlier successes, and no pricing prompt is open.
C3_Witness ==
    /\ hist.attempts = 4
    /\ vp.walletAddress = NoAddress
    /\ \E r \in verifyReqs : r.seq = 4
    /\ ~vp.showPricing /\ vp.error = NoError

\* C4 (as claimed): a connected visitor whose address has an active subscription is
\* never blocked: every handleVerify call with a non-empty token ID calls
\* verifyCredential, also while the subscription check is pending or after it failed.
C4_SubscribedNeverBlocked ==
    [][(AttemptStep /\ vp.walletAddress # NoAddress /\ env.subscribed) =>
          NewReqs # {}]_vars

\* C5: a handleVerify call whose token ID (the argument, else the input field) is
\* empty or only whitespace sets error to 'Please enter a token ID', makes no
\* verifyCredential call and leaves loading, searched, credential, showPricing and
\* verificationCount unchanged.
C5_EmptyTokenRejected ==
    [][(\/ AllSpaces(vp.tokenId) /\ HandleVerify
        \/ ~env.mounted /\ \E p \in UrlParams, e \in BOOLEAN :
              Truthy(p) /\ AllSpaces(p[1]) /\ MountWith(p, e)) =>
          /\ vp'.error = MsgEmpty
          /\ verifyReqs' = verifyReqs
          /\ vp'.loading = vp.loading
          /\ vp'.searched = vp.searched
          /\ vp'.credential = vp.credential
          /\ vp'.showPricing = vp.showPricing
          /\ vp'.verificationCount = vp.verificationCount]_vars

\* C5 witness: a whitespace-only token ID has been rejected while the result of an
\* earlier verification is still displayed.
C5_Witness ==
    /\ vp.tokenId = <<Space>>
    /\ vp.error = MsgEmpty
    /\ vp.searched /\ vp.credential # Null /\ ~vp.loading

\* C6 (as claimed): when verifyCredential returns null for a request, error becomes
\* 'Credential not found or invalid token ID' and the result panel (searched and
\* credential non-null) is not rendered, in every interleaving.
C6_NullResultNoPanel ==
    [][VerifyNull =>
          /\ vp'.error = MsgNotFound
          /\ ~(vp'.searched /\ vp'.credential # Null)]_vars

\* C7 (as claimed): on mount, a non-empty 'verify' parameter sets the input field to
\* its value and issues exactly one verification request for that value; an absent
\* parameter issues none.
C7_MountVerifiesParam ==
    [][\A p \in UrlParams, e \in BOOLEAN : MountWith(p, e) =>
          /\ (p # Null /\ p[1] # <<>>) =>
                /\ vp'.tokenId = p[1]
                /\ Cardinality(NewReqs) = 1
                /\ \A r \in NewReqs : r.id = p[1]
          /\ p = Null => NewReqs = {}]_vars

\* C7 (amended): on mount, a 'verify' parameter that is non-empty and not only
\* whitespace sets the input field to its value and issues exactly one verification
\* request for that value; a whitespace-only parameter sets the input field and
\* error 'Please enter a token ID' and issues no request; an absent or empty
\* parameter issues no request and leaves the input field and error unchanged.
C7_MountVerifiesNonBlankParam ==
    [][\A p \in UrlParams, e \in BOOLEAN : MountWith(p, e) =>
          /\ (p # Null /\ ~AllSpaces(p[1])) =>
                /\ vp'.tokenId = p[1]
                /\ Cardinality(NewReqs) = 1
                /\ \A r \in NewReqs : r.id = p[1]
          /\ (p # Null /\ p[1] # <<>> /\ AllSpaces(p[1])) =>
                /\ vp'.tokenId = p[1]
                /\ NewReqs = {}
                /\ vp'.error = MsgEmpty
          /\ (p = Null \/ p = Some(<<>>)) =>
                /\ NewReqs = {}
                /\ vp'.tokenId = vp.tokenId
                /\ vp'.error = vp.error]_vars

\* C7 witness: the mount effect has run with verify=7 and nothing else has happened:
\* the input field holds 7 and request 1, for 7, is in flight.
C7_Witness ==
    /\ env.mounted /\ hist.attempts = 1
    /\ vp.tokenId = <<"7">> /\ vp.loading
    /\ verifyReqs # {} /\ \A r \in verifyReqs : r.id = <<"7">> /\ r.seq = 1

\* C8 (as claimed): a successful result that arrives while the visitor is unconnected
\* or has access (hasAccess true) never changes verificationCount.
C8_UncappedNeverCounted ==
    [][(VerifyFound /\ (vp.walletAddress = NoAddress \/ vp.hasAccess)) =>
          vp'.verificationCount = vp.verificationCount]_vars

\* The step is a failure of a step of handleConnectWallet: connectWallet throws or
\* returns no address, switchToSepolia throws, or the credential load that
\* handleConnectWallet started throws.
ConnectStepFails ==
    \/ SWConnectThrow
    \/ \E c \in swConnects : SWConnectResult(c, NoAddress)
    \/ SwitchThrow
    \/ \E i \in 1..Len(loads) : loads[i].by = "handleConnectWallet" /\ LoadError(i)

\* C9 (as claimed): a failure of a step of handleConnectWallet leaves the component
\* in the disconnected state: walletAddress is null and loading is false.
C9_FailureEndsDisconnected ==
    [][ConnectStepFails => sw'.walletAddress = NoAddress /\ ~sw'.loading]_vars

\* C10 (as claimed): when getStudentCredentials or getCredentialsByStudent throws,
\* credentials and dbCredentials both have the values they had when that
\* loadCredentials call was made.
C10_FailedLoadLeavesPriorState ==
    [][\A i \in 1..Len(loads) : LoadError(i) =>
          /\ sw'.credentials = loads[i].before.credentials
          /\ sw'.dbCredentials = loads[i].before.dbCredentials]_vars

\* C11 (as claimed): a failure of an external call leaves no in-progress flag true
\* once the handler has ended: after verifyCredential throws and no verification
\* is in flight, loading is false; after checkUserSubscription throws and no
\* checkAccess call is in flight, checkingAccess is false.
C11_FailureLeavesNoFlag ==
    [][/\ (VerifyThrow /\ verifyReqs' = {}) => ~vp'.loading
       /\ (AccessThrow /\ accessReqs' = 0) => ~vp'.checkingAccess]_vars

\* C12: StudentWallet's mount effect. When eth_accounts resolves with at least one
\* account, walletAddress becomes the first account and a credential load for that
\* account is started (loading true, getStudentCredentials called for it); when it
\* resolves with no account or throws, or when there is no provider (no request is
\* made), walletAddress and every other state cell stay as they are and no load is
\* started.
C12_MountLoadsAuthorizedAccount ==
    [][/\ \A accounts \in AccountLists : SWAccountsResult(accounts) =>
             IF Len(accounts) > 0
             THEN /\ sw'.walletAddress = accounts[1]
                  /\ sw'.loading
                  /\ Len(loads') = Len(loads) + 1
                  /\ SubSeq(loads', 1, Len(loads)) = loads
                  /\ loads'[Len(loads')].address = accounts[1]
                  /\ loads'[Len(loads')].phase = "chain"
             ELSE sw' = sw /\ loads' = loads
       /\ SWAccountsThrow => sw' = sw /\ loads' = loads
       /\ SWMountWith(FALSE) =>
             swAccountReqs' = swAccountReqs /\ sw' = sw /\ loads' = loads]_vars

\* C12 witness: the provider reported 0xB0B as the first of two accounts and no
\* connect was requested: walletAddress is 0xB0B and the load that
\* checkWalletConnection started for 0xB0B is in flight.
C12_Witness ==
    /\ sw.walletAddress = "0xB0B"
    /\ swConnects = {}
    /\ sw.loading
    /\ \E i \in 1..Len(loads) :
          loads[i].by = "checkWalletConnection" /\ loads[i].address = "0xB0B"

\* C13: a handleVerify call with a non-empty token ID that the cap blocks
\* (walletAddress set, hasAccess false, verificationCount >= 3) sets error to the
\* limit message and showPricing to true, makes no verifyCredential call, and leaves
\* loading, credential, searched and verificationCount unchanged.
C13_BlockedAttemptFrame ==
    [][(AttemptStep /\ vp.walletAddress # NoAddress /\ ~vp.hasAccess
                    /\ vp.verificationCount >= 3) =>
          /\ vp'.showPricing
          /\ vp'.error = MsgLimit
          /\ verifyReqs' = verifyReqs
          /\ vp'.loading = vp.loading
          /\ vp'.credential = vp.credential
          /\ vp'.searched = vp.searched
          /\ vp'.verificationCount = vp.verificationCount]_vars

\* C13 witness: an attempt has been blocked while the credential of the last
\* successful verification is displayed: the limit message and the pricing prompt
\* are up, the credential is still there and loading is false.
C13_Witness ==
    /\ vp.error = MsgLimit /\ vp.showPricing
    /\ vp.searched /\ vp.credential # Null
    /\ ~vp.loading
    /\ vp.verificationCount >= 3

\* C14: when the verifyCredential call of a request throws, error becomes the thrown
\* error's message, or 'Failed to verify credential' when the message is empty;
\* the request sets no credential (credential is left as it is), verificationCount
\* is unchanged and loading becomes false.
C14_ThrowSetsMessage ==
    [][\A r \in verifyReqs, message \in ErrMessages : VerifyError(r, message) =>
          /\ vp'.error = (IF message = "" THEN "Failed to verify credential" ELSE message)
          /\ vp'.credential = vp.credential
          /\ vp'.verificationCount = vp.verificationCount
          /\ ~vp'.loading]_vars

\* C14 witness: a verification has thrown an error with an empty message and
\* nothing else is in flight: the fallback message is shown, no credential is
\* displayed and loading is false.
C14_Witness ==
    /\ vp.error = MsgFailed
    /\ vp.searched /\ vp.credential = Null
    /\ ~vp.loading
    /\ verifyReqs = {}

\* C15 (as claimed): a getStudentCredentials or getCredentialsByStudent call that
\* hangs stays in flight for ever, and loading is true in every state from the call
\* on: in every state in which a loadCredentials call is in flight, loading is true.
C15_LoadingWhileLoadInFlight == loads # <<>> => sw.loading

\* C16: while a verifyCredential call is in flight and loading is true, the visitor
\* can call handleVerify again (with a token id that passes the checks), and that call
\* adds a second request next to the pending ones, none of which is dropped.
C16_SecondRequestWhilePending ==
    (/\ env.mounted
     /\ verifyReqs # {}
     /\ vp.loading
     /\ Cardinality(verifyReqs) < MaxInFlight
     /\ hist.attempts < MaxAttempts
     /\ VerifyOutcome(Null, vp) = "issued") =>
        ENABLED (/\ HandleVerify
                 /\ verifyReqs \subseteq verifyReqs'
                 /\ Cardinality(verifyReqs') = Cardinality(verifyReqs) + 1)

\* Two verifyCredential calls for the same token id are in flight, loading is true.
C16_Witness ==
    /\ vp.loading
    /\ \E r1, r2 \in verifyReqs : r1 # r2 /\ r1.id = r2.id

\* C17: opening or closing the QR modal changes selectedCredential and neither
\* shareCredential nor viewAuditCredential; opening or closing the share modal
\* changes shareCredential only; opening or closing the history modal changes
\* viewAuditCredential only.
C17_ModalFlagsIndependent ==
    [][/\ (\/ sw'.shareCredential # sw.shareCredential
            \/ sw'.viewAuditCredential # sw.viewAuditCredential) =>
                ~(OpenQR \/ CloseQR)
       /\ (\/ sw'.selectedCredential # sw.selectedCredential
            \/ sw'.viewAuditCredential # sw.viewAuditCredential) =>
                ~(OnShare \/ CloseShare)
       /\ (\/ sw'.selectedCredential # sw.selectedCredential
            \/ sw'.shareCredential # sw.shareCredential) =>
                ~(OpenHistory \/ OnViewHistory \/ CloseAudit)]_vars

\* The connected view renders the QR modal together with the share modal or the
\* history modal.
C17_Witness ==
    /\ sw.walletAddress # NoAddress
    /\ sw.selectedCredential # Null
    /\ sw.shareCredential # Null \/ sw.viewAuditCredential # Null

\* C18: a step that changes credentials is the return of a getStudentCredentials
\* call of loadCredentials and leaves the returned list in credentials; a step that
\* changes dbCredentials is the return of a getCredentialsByStudent call and leaves
\* the returned list in dbCredentials. No other step (tab switch, 3D toggle, modal,
\* connect, refresh, failure) changes either list.
C18_ListsOnlyReplacedByLoads ==
    [][/\ sw'.credentials # sw.credentials =>
             CredsReturn /\ sw'.dbCredentials = sw.dbCredentials
       /\ sw'.dbCredentials # sw.dbCredentials =>
             DbCredsReturn /\ sw'.credentials = sw.credentials]_vars

\* Both lists are loaded, and the student has since switched to the 3D view and
\* opened a modal.
C18_Witness ==
    /\ sw.credentials # <<>>
    /\ sw.dbCredentials # <<>>
    /\ sw.view3D
    /\ sw.shareCredential # Null
    /\ loads = <<>>

\* C19 (as claimed): a verifyCredential call that resolves with a credential while the
\* visitor is connected and has no subscription (and hasAccess is false) increments
\* verificationCount by exactly one, whenever the request was started.
C19_CappedSuccessCounted ==
    [][(/\ vp.walletAddress # NoAddress
        /\ ~env.subscribed /\ ~vp.hasAccess
        /\ VerifyFound) =>
          vp'.verificationCount = vp.verificationCount + 1]_vars

\* C20 (as claimed): once no verifyCredential call is in flight, credential and error
\* are the outcome of one request, the most recently issued: a credential with no
\* request error, or a request error ('Credential not found or invalid token ID' or the
\* message of a thrown error) with no credential; never the credential of one request
\* next to the error of another.
C20_DisplayIsOneOutcome ==
    verifyReqs = {} =>
        ~(/\ vp.credential # Null
          /\ vp.error \notin {NoError, MsgEmpty, MsgLimit})

\* C21 (as claimed): the error box and the result panel are never rendered together:
\* in no reachable state is error non-null while searched is true and credential is
\* non-null.
C21_ErrorExcludesPanel ==
    ~(vp.error # NoError /\ vp.searched /\ vp.credential # Null)

\* C22 (as claimed), for VerificationPortal: loading is true in every state in which a
\* verifyCredential call is in flight, and false in every state in which none is.
C22_LoadingIffInFlight == vp.loading <=> verifyReqs # {}

\* C23: in every reachable state showPricing true implies walletAddress non-null, and
\* no step takes walletAddress from an address back to null.
C23_PricingOnlyWhenConnected ==
    /\ [](vp.showPricing => vp.walletAddress # NoAddress)
    /\ [][vp.walletAddress # NoAddress => vp'.walletAddress # NoAddress]_vars

\* The pricing prompt is open for a visitor who connected after verifying
\* unconnected; no eth_accounts or connectWallet call is pending.
C23_Witness ==
    /\ vp.showPricing
    /\ vp.walletAddress = Address
    /\ hist.unconnected
    /\ accountReqs = 0 /\ connectReqs = 0

====
